---- MODULE Spec2Model ----
(***************************************************************************)
(* A model of the emotion-analysis application: the text-to-decision       *)
(* pipeline (preprocessing, feature extraction, intensity mapping, lexicon *)
(* polarity, scenario generation, the facade analyze_text) and the bounded *)
(* history repository.                                                     *)
(*                                                                         *)
(* Text is a sequence of Unicode code points.  The Russian keywords of the *)
(* lexicons are written as their code points, with a transliteration in    *)
(* the comment beside each.  Message strings of the source are Russian;    *)
(* each is named here by an ASCII tag, with the source line beside it.     *)
(***************************************************************************)
EXTENDS Integers, Sequences, FiniteSets, TLC

VARIABLES
    max_size,   \* HistoryRepository._max_size
    lists,      \* the list objects: lists[StoreList] is HistoryRepository._items
    returned,   \* the list object the last list() call handed to its caller
    last,       \* the last repository operation: its name, argument and result
    adds,       \* number of add calls since construction or the last clear
    wpc,        \* position of the thread running add (SpecThreads)
    witem,      \* the item that thread is adding
    pre,        \* content of _items when that add began
    inp,        \* the arguments of the function call under study (SpecFn)
    out,        \* its result
    pc          \* "ready" before the call, "done" after it

vars == <<max_size, lists, returned, last, adds, wpc, witem, pre, inp, out, pc>>

storeVars == <<max_size, lists, returned, last, adds>>
threadVars == <<wpc, witem, pre>>
fnVars == <<inp, out, pc>>

-----------------------------------------------------------------------------
(* Bounds of the model *)

\* longest raw text given to preprocess, in characters
MaxLen == 4
\* most fragments concatenated into a text given to the scenario functions
MaxFrags == 2
\* confidence scores are k / ScoreSteps, k in 0..ScoreSteps
ScoreSteps == 20
\* largest capacity a HistoryRepository is constructed with
MaxCap == 3
\* most add calls counted since the last clear
MaxAdds == 5

-----------------------------------------------------------------------------
(* Characters *)

\* the replacement character " " of re.sub(r"\s+", " ", text)
SPACE == 32

\* Uppercase letters without a lowercase mapping: str.isupper() is True of
\* them and str.lower() leaves them unchanged.  U+1D400 MATHEMATICAL BOLD
\* CAPITAL A stands for the 549 such code points of Unicode.
UncasedUpper == {119808}

\* str.isspace(), which both str.strip() and the regex class \s use
IsSpace(c) ==
    \/ c \in 9..13
    \/ c \in 28..32
    \/ c \in {133, 160, 5760, 8232, 8233, 8239, 8287, 12288}
    \/ c \in 8192..8202

\* str.lower() on one character, for the characters of the model's alphabet:
\* ASCII, the Russian letters (U+0410..U+044F, U+0401, U+0451), whitespace
\* and UncasedUpper
LowerChar(c) ==
    IF c \in 65..90 THEN c + 32
    ELSE IF c \in 1040..1071 THEN c + 32
    ELSE IF c = 1025 THEN 1105
    ELSE c

\* str.isupper() on one character of the model's alphabet
IsUpperChar(c) ==
    \/ c \in 65..90
    \/ c \in 1040..1071
    \/ c = 1025
    \/ c \in UncasedUpper

\* str.isalpha() on one character of the model's alphabet
IsAlphaChar(c) ==
    \/ c \in 65..90
    \/ c \in 97..122
    \/ c \in 1040..1103
    \/ c \in {1025, 1105}
    \/ c \in UncasedUpper

-----------------------------------------------------------------------------
(* preprocessing.py: TextPreprocessor *)

RECURSIVE LStrip(_)
LStrip(t) ==
    IF t # <<>> /\ IsSpace(Head(t)) THEN LStrip(Tail(t)) ELSE t

RECURSIVE RStrip(_)
RStrip(t) ==
    IF t # <<>> /\ IsSpace(t[Len(t)])
    THEN RStrip(SubSeq(t, 1, Len(t) - 1))
    ELSE t

\* text.strip()
Strip(t) == RStrip(LStrip(t))

\* re.sub(r"\s+", " ", text): every maximal run of whitespace becomes one space
RECURSIVE CollapseSpaces(_)
CollapseSpaces(t) ==
    IF t = <<>> THEN <<>>
    ELSE IF IsSpace(Head(t)) THEN <<SPACE>> \o CollapseSpaces(LStrip(t))
    ELSE <<Head(t)>> \o CollapseSpaces(Tail(t))

\* the mutant of normalize_text: the strip() call is left out
normalize_text_NoStrip(text) ==
    IF text = <<>> THEN <<>> ELSE CollapseSpaces(text)

normalize_text(text) ==
    IF text = <<>> THEN <<>> ELSE CollapseSpaces(Strip(text))

\* text.lower()
to_lower(text) == [i \in 1..Len(text) |-> LowerChar(text[i])]

preprocess(raw_text) == to_lower(normalize_text(raw_text))

-----------------------------------------------------------------------------
(* linguistics.py: LinguisticAnalyzer *)

\* text.count(ch) for the one character of S
RECURSIVE CountChars(_, _)
CountChars(text, S) ==
    IF text = <<>> THEN 0
    ELSE (IF Head(text) \in S THEN 1 ELSE 0) + CountChars(Tail(text), S)

RECURSIVE CountUpper(_)
CountUpper(text) ==
    IF text = <<>> THEN 0
    ELSE (IF IsAlphaChar(Head(text)) /\ IsUpperChar(Head(text)) THEN 1 ELSE 0)
         + CountUpper(Tail(text))

RECURSIVE CountAlpha(_)
CountAlpha(text) ==
    IF text = <<>> THEN 0
    ELSE (IF IsAlphaChar(Head(text)) THEN 1 ELSE 0) + CountAlpha(Tail(text))

\* len(re.findall(r"[:;]-?[()DP]", text)): matches found left to right,
\* each search resuming after the previous match
RECURSIVE CountEmoticons(_)
CountEmoticons(text) ==
    IF Len(text) < 2 THEN 0
    ELSE IF text[1] \in {58, 59} /\ text[2] \in {40, 41, 68, 80}
         THEN 1 + CountEmoticons(SubSeq(text, 3, Len(text)))
    ELSE IF Len(text) >= 3 /\ text[1] \in {58, 59} /\ text[2] = 45
            /\ text[3] \in {40, 41, 68, 80}
         THEN 1 + CountEmoticons(SubSeq(text, 4, Len(text)))
    ELSE CountEmoticons(Tail(text))

\* round(caps / letters, 3), in thousandths: the nearest thousandth, a tie
\* going to the even one
RoundThousandths(caps, letters) ==
    LET q == (caps * 1000) \div letters
        r == (caps * 1000) % letters
    IN  IF 2 * r > letters THEN q + 1
        ELSE IF 2 * r < letters THEN q
        ELSE IF q % 2 = 0 THEN q ELSE q + 1

\* caps_ratio is kept in thousandths
extract_features(text) ==
    LET caps == CountUpper(text)
        letters == CountAlpha(text)
    IN  [ length |-> Len(text),
          exclamations |-> CountChars(text, {33}),
          questions |-> CountChars(text, {63}),
          caps_ratio |-> IF letters > 0 THEN RoundThousandths(caps, letters) ELSE 0,
          emoticons |-> CountEmoticons(text) ]

-----------------------------------------------------------------------------
(* emotion_model.py: EmotionModelService *)

\* the translation table, each Russian display label transliterated
EMOTION_RU ==
    [
      admiration |-> "voshishchenie",
      amusement |-> "vesele",
      anger |-> "zlost",
      annoyance |-> "razdrazhenie",
      approval |-> "odobrenie",
      caring |-> "zabota",
      confusion |-> "neponimanie",
      curiosity |-> "lyubopytstvo",
      desire |-> "zhelanie",
      disappointment |-> "razocharovanie",
      disapproval |-> "neodobrenie",
      disgust |-> "otvrashchenie",
      embarrassment |-> "smushchenie",
      excitement |-> "vozbuzhdenie",
      fear |-> "strah",
      gratitude |-> "priznatelnost",
      grief |-> "gore",
      joy |-> "radost",
      love |-> "lyubov",
      nervousness |-> "nervoznost",
      optimism |-> "optimizm",
      pride |-> "gordost",
      realization |-> "osoznanie",
      relief |-> "oblegchenie",
      remorse |-> "raskayanie",
      sadness |-> "grust",
      surprise |-> "udivlenie",
      neutral |-> "nejtralnost"
    ]

\* the taxonomy of the classifier: the keys of EMOTION_RU
Taxonomy == DOMAIN EMOTION_RU

\* EMOTION_RU.get(label, label)
to_ru(label) ==
    IF label \in DOMAIN EMOTION_RU THEN EMOTION_RU[label] ELSE label

\* the three intensities: "vysokaya" (high), "srednyaya" (medium), "nizkaya" (low)
HIGH == "vysokaya"
MEDIUM == "srednyaya"
LOW == "nizkaya"
Intensities == {LOW, MEDIUM, HIGH}

\* A score is k / ScoreSteps, given as k.  score >= 0.5 is 2k >= ScoreSteps,
\* score >= 0.3 is 10k >= 3 * ScoreSteps.
\* the mutant of map_score_to_intensity: > 0.5 in place of >= 0.5
map_score_to_intensity_Strict(score) ==
    IF 2 * score > ScoreSteps THEN HIGH
    ELSE IF 10 * score >= 3 * ScoreSteps THEN MEDIUM
    ELSE LOW

map_score_to_intensity(score) ==
    IF 2 * score >= ScoreSteps THEN HIGH
    ELSE IF 10 * score >= 3 * ScoreSteps THEN MEDIUM
    ELSE LOW

-----------------------------------------------------------------------------
(* scenarios.py: ScenarioEngine *)

bad_words ==
    {
      <<1076, 1091, 1088, 1072, 1082>>,  \* durak (line 10)
      <<1076, 1091, 1088, 1072>>,  \* dura (line 11)
      <<1080, 1076, 1080, 1086, 1090>>,  \* idiot (line 12)
      <<1080, 1076, 1080, 1086, 1090, 1082, 1072>>,  \* idiotka (line 13)
      <<1075, 1083, 1091, 1087, 1099, 1081>>,  \* glupyj (line 14)
      <<1075, 1083, 1091, 1087, 1072, 1103>>,  \* glupaya (line 15)
      <<1090, 1091, 1087, 1086, 1081>>,  \* tupoj (line 16)
      <<1090, 1091, 1087, 1072, 1103>>,  \* tupaya (line 17)
      <<1085, 1077, 1082, 1086, 1084, 1087, 1077, 1090, 1077, 1085, 1090, 1085, 1099, 1081>>,  \* nekompetentnyj (line 18)
      <<1073, 1077, 1079, 1076, 1072, 1088, 1085, 1099, 1081>>,  \* bezdarnyj (line 19)
      <<1073, 1077, 1079, 1076, 1072, 1088, 1085, 1072, 1103>>,  \* bezdarnaya (line 20)
      <<1073, 1077, 1089, 1090, 1086, 1083, 1082, 1086, 1074, 1099, 1081>>,  \* bestolkovyj (line 21)
      <<1073, 1077, 1089, 1090, 1086, 1083, 1082, 1086, 1074, 1072, 1103>>,  \* bestolkovaya (line 22)
      <<1087, 1083, 1086, 1093, 1086, 1081, 32, 1089, 1087, 1077, 1094, 1080, 1072, 1083, 1080, 1089, 1090>>,  \* plohoj specialist (line 23)
      <<1091, 1078, 1072, 1089, 1085, 1099, 1081, 32, 1089, 1077, 1088, 1074, 1080, 1089>>,  \* uzhasnyj servis (line 24)
      <<1086, 1090, 1074, 1088, 1072, 1090, 1080, 1090, 1077, 1083, 1100, 1085, 1099, 1081, 32, 1089, 1077, 1088, 1074, 1080, 1089>>  \* otvratitel'nyj servis (line 25)
    }

negative_tone_words ==
    {
      <<1075, 1088, 1091, 1089, 1090, 1085, 1086>>,  \* grustno (line 29)
      <<1087, 1077, 1095, 1072, 1083, 1100, 1085, 1086>>,  \* pechal'no (line 30)
      <<1075, 1088, 1091, 1089, 1090, 1100>>,  \* grust' (line 31)
      <<1086, 1076, 1080, 1085, 1086, 1095, 1077, 1089, 1090, 1074, 1086>>,  \* odinochestvo (line 32)
      <<1086, 1076, 1080, 1085, 1086, 1082, 1086>>,  \* odinoko (line 33)
      <<1089, 1090, 1088, 1072, 1096, 1085, 1086>>,  \* strashno (line 34)
      <<1089, 1090, 1088, 1072, 1093>>,  \* strah (line 35)
      <<1091, 1078, 1072, 1089, 1085, 1086>>,  \* uzhasno (line 36)
      <<1086, 1090, 1074, 1088, 1072, 1090, 1080, 1090, 1077, 1083, 1100, 1085, 1086>>,  \* otvratitel'no (line 37)
      <<1087, 1083, 1086, 1093, 1086>>,  \* ploho (line 38)
      <<1093, 1091, 1078, 1077>>,  \* huzhe (line 39)
      <<1091, 1078, 1072, 1089, 1085, 1099, 1081>>,  \* uzhasnyj (line 40)
      <<1086, 1090, 1074, 1088, 1072, 1090, 1080, 1090, 1077, 1083, 1100, 1085, 1099, 1081>>,  \* otvratitel'nyj (line 41)
      <<1091, 1089, 1090, 1072, 1083>>,  \* ustal (line 42)
      <<1091, 1089, 1090, 1072, 1083, 1072>>,  \* ustala (line 43)
      <<1091, 1090, 1086, 1084, 1080, 1083>>,  \* utomil (line 44)
      <<1091, 1090, 1086, 1084, 1080, 1083, 1072>>,  \* utomila (line 45)
      <<1085, 1072, 1076, 1086, 1077, 1083>>,  \* nadoel (line 46)
      <<1085, 1072, 1076, 1086, 1077, 1083, 1072>>,  \* nadoela (line 47)
      <<1085, 1072, 1076, 1086, 1077, 1083, 1080>>,  \* nadoeli (line 48)
      <<1088, 1072, 1079, 1076, 1088, 1072, 1078, 1072, 1077, 1090>>,  \* razdrazhaet (line 49)
      <<1088, 1072, 1079, 1076, 1088, 1072, 1078, 1077, 1085, 1080, 1077>>,  \* razdrazhenie (line 50)
      <<1086, 1089, 1072, 1076, 1086, 1082>>,  \* osadok (line 51)
      <<1085, 1077, 1087, 1088, 1080, 1103, 1090, 1085, 1086, 1077, 32, 1095, 1091, 1074, 1089, 1090, 1074, 1086>>,  \* nepriyatnoe chuvstvo (line 52)
      <<1088, 1072, 1079, 1086, 1095, 1072, 1088, 1086, 1074, 1072, 1085, 1080, 1077>>,  \* razocharovanie (line 53)
      <<1088, 1072, 1079, 1086, 1095, 1072, 1088, 1086, 1074, 1072, 1085>>,  \* razocharovan (line 54)
      <<1088, 1072, 1079, 1086, 1095, 1072, 1088, 1086, 1074, 1072, 1085, 1072>>,  \* razocharovana (line 55)
      <<1085, 1077, 1085, 1072, 1074, 1080, 1078, 1091>>,  \* nenavizhu (line 56)
      <<1085, 1077, 1085, 1072, 1074, 1080, 1089, 1090, 1100>>,  \* nenavist' (line 57)
      <<1073, 1086, 1102, 1089, 1100>>,  \* boyus' (line 58)
      <<1090, 1088, 1077, 1074, 1086, 1075, 1072>>,  \* trevoga (line 59)
      <<1090, 1088, 1077, 1074, 1086, 1078, 1085, 1086>>  \* trevozhno (line 60)
    }

positive_tone_words ==
    {
      <<1088, 1072, 1076>>,  \* rad (line 64)
      <<1088, 1072, 1076, 1072>>,  \* rada (line 65)
      <<1089, 1095, 1072, 1089, 1090, 1083, 1080, 1074>>,  \* schastliv (line 66)
      <<1089, 1095, 1072, 1089, 1090, 1083, 1080, 1074, 1072>>,  \* schastliva (line 67)
      <<1076, 1086, 1074, 1086, 1083, 1077, 1085>>,  \* dovolen (line 68)
      <<1076, 1086, 1074, 1086, 1083, 1100, 1085, 1072>>,  \* dovol'na (line 69)
      <<1079, 1072, 1084, 1077, 1095, 1072, 1090, 1077, 1083, 1100, 1085, 1099, 1081>>,  \* zamechatel'nyj (line 70)
      <<1079, 1072, 1084, 1077, 1095, 1072, 1090, 1077, 1083, 1100, 1085, 1072, 1103>>,  \* zamechatel'naya (line 71)
      <<1086, 1090, 1083, 1080, 1095, 1085, 1099, 1081>>,  \* otlichnyj (line 72)
      <<1086, 1090, 1083, 1080, 1095, 1085, 1072, 1103>>,  \* otlichnaya (line 73)
      <<1086, 1090, 1083, 1080, 1095, 1085, 1086>>,  \* otlichno (line 74)
      <<1087, 1088, 1077, 1082, 1088, 1072, 1089, 1085, 1099, 1081>>,  \* prekrasnyj (line 75)
      <<1087, 1088, 1077, 1082, 1088, 1072, 1089, 1085, 1072, 1103>>,  \* prekrasnaya (line 76)
      <<1083, 1091, 1095, 1096, 1080, 1081>>,  \* luchshij (line 77)
      <<1090, 1077, 1087, 1083, 1099, 1081, 32, 1076, 1077, 1085, 1100>>,  \* teplyj den' (line 78)
      <<1093, 1086, 1088, 1086, 1096, 1072, 1103, 32, 1087, 1086, 1075, 1086, 1076, 1072>>,  \* horoshaya pogoda (line 79)
      <<1087, 1086, 1076, 1072, 1088, 1086, 1082>>,  \* podarok (line 80)
      <<1091, 1089, 1087, 1077, 1093>>,  \* uspeh (line 81)
      <<1087, 1086, 1074, 1099, 1096, 1077, 1085, 1080, 1077>>,  \* povyshenie (line 82)
      <<1087, 1086, 1093, 1074, 1072, 1083, 1072>>,  \* pohvala (line 83)
      <<1073, 1083, 1072, 1075, 1086, 1076, 1072, 1088, 1077, 1085>>,  \* blagodaren (line 84)
      <<1073, 1083, 1072, 1075, 1086, 1076, 1072, 1088, 1085, 1072>>,  \* blagodarna (line 85)
      <<1083, 1102, 1073, 1083, 1102>>,  \* lyublyu (line 86)
      <<1085, 1088, 1072, 1074, 1080, 1090, 1089, 1103>>,  \* nravitsya (line 87)
      <<1089, 1087, 1072, 1089, 1080, 1073, 1086>>,  \* spasibo (line 88)
      <<1073, 1086, 1083, 1100, 1096, 1086, 1077, 32, 1089, 1087, 1072, 1089, 1080, 1073, 1086>>,  \* bol'shoe spasibo (line 89)
      <<1086, 1075, 1088, 1086, 1084, 1085, 1086, 1077, 32, 1089, 1087, 1072, 1089, 1080, 1073, 1086>>,  \* ogromnoe spasibo (line 90)
      <<1074, 1099, 1088, 1091, 1095, 1080, 1083, 1080>>  \* vyruchili (line 91)
    }

positive_labels == {"joy", "admiration", "JOY", "HAPPINESS"}

negative_labels ==
    { "anger", "sadness", "fear", "disgust", "annoyance", "disappointment",
      "grief", "ANGER", "SADNESS", "FEAR", "DISGUST" }

\* w in text, for a non-empty w
Contains(w, text) ==
    \E i \in 1..(Len(text) - Len(w) + 1) :
        /\ text[i] = w[1]
        /\ SubSeq(text, i, i + Len(w) - 1) = w

\* any(bad in lowered for bad in self.bad_words)
HasBadWords(lowered) == \E bad \in bad_words : Contains(bad, lowered)

\* what a function without a return statement on the path taken returns
None == "<None>"

\* the messages of support_scenario (lines 130-133, 136, 139, 142)
SUPPORT_CRITICAL == "support: critical request, the client uses insults; escalate"
SUPPORT_NEGATIVE_IMPORTANT == "support: negative request of high importance"
SUPPORT_NEGATIVE == "support: negative request"
SUPPORT_POSITIVE == "support: positive request"

\* the messages of moderator_scenario (lines 162, 165, 168, 170)
MODERATOR_INSULTS == "moderator: insults; hide from the chat and send to the moderator"
MODERATOR_TOXIC == "moderator: potentially toxic; hide from the chat and send for review"
MODERATOR_SPOT_CHECK == "moderator: may contain negativity; mark for a spot check"
MODERATOR_ACCEPTABLE == "moderator: acceptable; leave in the chat"

\* the messages of marketer_scenario (lines 186, 189, 191)
MARKETER_POSITIVE == "marketer: positive emotions prevail"
MARKETER_NEGATIVE == "marketer: negative emotions prevail"
MARKETER_MIXED == "marketer: mixed background; segmentation needed"

\* the local sets of support_scenario
negative_emotions ==
    { "anger", "sadness", "fear", "disgust", "annoyance", "disappointment",
      "grief", "remorse", "nervousness", "ANGER", "SADNESS", "FEAR", "DISGUST" }

positive_emotions ==
    {"joy", "admiration", "JOY", "HAPPINESS", "gratitude", "love", "optimism"}

\* the mutant of support_scenario: the label is looked at before the insults
support_scenario_LabelFirst(emotion_label, intensity, text) ==
    LET lowered == to_lower(text)
    IN  IF emotion_label \in negative_emotions /\ intensity \in {MEDIUM, HIGH}
        THEN SUPPORT_NEGATIVE_IMPORTANT
        ELSE IF HasBadWords(lowered) THEN SUPPORT_CRITICAL
        ELSE IF emotion_label \in negative_emotions THEN SUPPORT_NEGATIVE
        ELSE IF emotion_label \in positive_emotions THEN SUPPORT_POSITIVE
        ELSE None

support_scenario(emotion_label, intensity, text) ==
    LET lowered == to_lower(text)
    IN  IF HasBadWords(lowered) THEN SUPPORT_CRITICAL
        ELSE IF emotion_label \in negative_emotions /\ intensity \in {MEDIUM, HIGH}
        THEN SUPPORT_NEGATIVE_IMPORTANT
        ELSE IF emotion_label \in negative_emotions THEN SUPPORT_NEGATIVE
        ELSE IF emotion_label \in positive_emotions THEN SUPPORT_POSITIVE
        ELSE None

\* the local set of moderator_scenario
toxic_emotions == {"ANGER", "DISGUST", "IRRITATION", "ANGER/hostility", "anger"}

moderator_scenario(emotion_label, intensity, text) ==
    LET lowered == to_lower(text)
    IN  IF HasBadWords(lowered) THEN MODERATOR_INSULTS
        ELSE IF emotion_label \in toxic_emotions /\ intensity \in {MEDIUM, HIGH}
        THEN MODERATOR_TOXIC
        ELSE IF emotion_label \in toxic_emotions THEN MODERATOR_SPOT_CHECK
        ELSE MODERATOR_ACCEPTABLE

\* the mutant of marketer_scenario: < 20 in place of <= 20
marketer_scenario_Strict(distribution) ==
    LET positive == distribution.positive
        negative == distribution.negative
    IN  IF positive >= 60 /\ negative < 20 THEN MARKETER_POSITIVE
        ELSE IF negative >= 60 /\ positive < 20 THEN MARKETER_NEGATIVE
        ELSE MARKETER_MIXED

marketer_scenario(distribution) ==
    LET positive == distribution.positive
        negative == distribution.negative
    IN  IF positive >= 60 /\ negative <= 20 THEN MARKETER_POSITIVE
        ELSE IF negative >= 60 /\ positive <= 20 THEN MARKETER_NEGATIVE
        ELSE MARKETER_MIXED

\* int(round(pos_votes / total_votes * 100)): the nearest integer, a tie going
\* to the even one.  The float quotient rounds as the exact one does for every
\* pair of vote counts below 23 positive and 17 negative votes.
RoundPercent(pos_votes, total_votes) ==
    LET q == (pos_votes * 100) \div total_votes
        r == (pos_votes * 100) % total_votes
    IN  IF 2 * r > total_votes THEN q + 1
        ELSE IF 2 * r < total_votes THEN q
        ELSE IF q % 2 = 0 THEN q ELSE q + 1

\* the number of places of text where w begins
Occurrences(w, text) ==
    Cardinality({i \in 1..(Len(text) - Len(w) + 1) :
                    SubSeq(text, i, i + Len(w) - 1) = w})

RECURSIVE SumOccurrences(_, _)
SumOccurrences(words, text) ==
    IF words = {} THEN 0
    ELSE LET w == CHOOSE x \in words : TRUE
         IN  Occurrences(w, text) + SumOccurrences(words \ {w}, text)

\* the mutant of Hits: a keyword counts once for each place it occurs at
Hits_PerOccurrence(words, lowered) == SumOccurrences(words, lowered)

\* sum(1 for w in words if w in lowered)
Hits(words, lowered) == Cardinality({w \in words : Contains(w, lowered)})

\* pos_votes and neg_votes of polarity_with_lexicon (lines 205-217)
Votes(label, text) ==
    LET lowered == to_lower(text)
        label_pos == IF label \in positive_labels THEN 3 ELSE 0
        label_neg == IF label \notin positive_labels /\ label \in negative_labels
                     THEN 3 ELSE 0
    IN  [ pos |-> label_pos + 2 * Hits(positive_tone_words, lowered),
          neg |-> label_neg + 1 * Hits(negative_tone_words, lowered) ]

\* the mutant of polarity_with_lexicon: each share is the integer part of its
\* own quotient
polarity_with_lexicon_Truncate(label, text) ==
    LET v == Votes(label, text)
        total_votes == v.pos + v.neg
    IN  IF total_votes = 0 THEN [positive |-> 0, negative |-> 0]
        ELSE [ positive |-> (v.pos * 100) \div total_votes,
               negative |-> (v.neg * 100) \div total_votes ]

polarity_with_lexicon(label, text) ==
    LET v == Votes(label, text)
        total_votes == v.pos + v.neg
    IN  IF total_votes = 0 THEN [positive |-> 0, negative |-> 0]
        ELSE LET pos_share == RoundPercent(v.pos, total_votes)
             IN  [positive |-> pos_share, negative |-> 100 - pos_share]

build_scenarios_single(emotion_label, intensity, text) ==
    LET polarity == polarity_with_lexicon(emotion_label, text)
    IN  [ for_support |-> support_scenario(emotion_label, intensity, text),
          for_moderator |-> moderator_scenario(emotion_label, intensity, text),
          for_marketer |-> marketer_scenario(polarity) ]

-----------------------------------------------------------------------------
(* main.py: EmotionAnalysisService.analyze_text *)

\* what raising an exception gives the caller
Raised(error) == [raised |-> TRUE, error |-> error]

\* ScenarioResult(for_support=..., for_moderator=..., for_marketer=...): the
\* three fields of the pydantic model (models.py, lines 17-20) are declared
\* str, and None is not a str
ScenarioResultValid(scenario_dict) ==
    /\ scenario_dict.for_support # None
    /\ scenario_dict.for_moderator # None
    /\ scenario_dict.for_marketer # None

\* cls is what self._emotion_model.classify(cleaned) does: it returns
\* (cls.label, cls.score) when cls.ok, and raises otherwise
analyze_text(raw_text, cls) ==
    LET cleaned == preprocess(raw_text)
        features == extract_features(cleaned)
        label == cls.label
        score == cls.score
        label_ru == to_ru(label)
        intensity == map_score_to_intensity(score)
        shares == polarity_with_lexicon(label, cleaned)
        scenario_dict == build_scenarios_single(label, intensity, cleaned)
    IN  IF ~cls.ok THEN Raised("ClassificationFailure")
        ELSE IF ~ScenarioResultValid(scenario_dict) THEN Raised("ValidationError")
        ELSE [ raised |-> FALSE,
               analyze_response |->
                   [ cleaned_text |-> cleaned,
                     features |-> features,
                     emotion |-> [label |-> label_ru, score |-> score,
                                  intensity |-> intensity],
                     scenarios |-> scenario_dict ],
               shares |-> shares,
               intensity |-> intensity ]

-----------------------------------------------------------------------------
(* models.py: HistoryRepository *)

\* self._items.insert(0, item)
InsertFront(items, item) == <<item>> \o items

\* if len(self._items) > self._max_size: self._items.pop()
EvictOverflow(items, max) ==
    IF Len(items) > max THEN SubSeq(items, 1, Len(items) - 1) ELSE items

\* the mutant of HistoryRepository_add: no eviction
HistoryRepository_add_NoEvict(items, item, max) == InsertFront(items, item)

\* the mutant of HistoryRepository_add: pop(0) in place of pop()
HistoryRepository_add_PopFront(items, item, max) ==
    LET inserted == InsertFront(items, item)
    IN  IF Len(inserted) > max THEN Tail(inserted) ELSE inserted

HistoryRepository_add(items, item, max) ==
    EvictOverflow(InsertFront(items, item), max)

\* the mutant of HistoryRepository_list: return self._items
HistoryRepository_list_Alias(ls) == [ref |-> "items", lists |-> ls]

\* list(self._items): a new list object with the same elements; the caller
\* gets the reference to it
HistoryRepository_list(ls) ==
    [ref |-> "copy", lists |-> [ls EXCEPT !.copy = ls.items]]

\* self._items.clear()
HistoryRepository_clear(items) == <<>>

\* len(self._items)
HistoryRepository_size(items) == Len(items)

-----------------------------------------------------------------------------
(* Inputs *)

\* all sequences over S of length at most n
RECURSIVE SeqsUpTo(_, _)
SeqsUpTo(S, n) ==
    IF n = 0 THEN {<<>>}
    ELSE LET shorter == SeqsUpTo(S, n - 1)
         IN  shorter \cup {<<c>> \o t : c \in S, t \in {u \in shorter : Len(u) = n - 1}}

\* the characters of the raw texts given to preprocess: space, newline,
\* no-break space, Cyrillic capital and small letter DE, and an
\* uppercase letter without a lowercase mapping
PreAlphabet == {32, 10, 160, 1044, 1076} \cup UncasedUpper

PreTexts == SeqsUpTo(PreAlphabet, MaxLen)

\* the pieces the texts given to the scenario functions are made of
Fragments ==
    {
      <<32>>,  \* " "
      <<1087, 1088, 1080, 1074, 1077, 1090>>,  \* privet: no keyword
      <<1059, 1078, 1072, 1089, 1085, 1099, 1081, 32, 1089, 1077, 1088, 1074, 1080, 1089>>,  \* Uzhasnyj servis: a bad word holding a negative-tone word
      <<1073, 1086, 1083, 1100, 1096, 1086, 1077, 32, 1089, 1087, 1072, 1089, 1080, 1073, 1086>>,  \* bol'shoe spasibo: two positive-tone words
      <<1087, 1083, 1086, 1093, 1086>>,  \* ploho: a negative-tone word
      <<1056, 1040, 1044>>  \* RAD: a positive-tone word in capitals
    }

\* the concatenations of at most n fragments
RECURSIVE FragTexts(_)
FragTexts(n) ==
    IF n = 0 THEN {<<>>}
    ELSE LET shorter == FragTexts(n - 1)
         IN  shorter \cup {f \o t : f \in Fragments, t \in shorter}

ScenarioTexts == FragTexts(MaxFrags)

\* the labels given to the scenario functions: the taxonomy, a label of the
\* label sets that is not in the taxonomy, and an unknown label
Labels == Taxonomy \cup {"JOY", "unknown_label_xyz"}

Scores == 0..ScoreSteps

\* the lowest score of each intensity band, and the highest score
BandScores ==
    {0, ScoreSteps}
    \cup {s \in Scores : \A r \in Scores :
              map_score_to_intensity(r) = map_score_to_intensity(s) => s <= r}

Call(fn, text, label, intensity, score, ok) ==
    [fn |-> fn, text |-> text, label |-> label, intensity |-> intensity,
     score |-> score, ok |-> ok]

\* the HistoryItem objects the callers of add hold
Items == {"item_a", "item_b"}

-----------------------------------------------------------------------------
(* The state after construction *)

\* HistoryRepository(max_size): an empty list and the capacity
InitStore ==
    /\ max_size \in 1..MaxCap
    /\ lists = [items |-> <<>>, copy |-> <<>>]
    /\ returned = "none"
    /\ last = [op |-> "init", arg |-> None, ret |-> None]
    /\ adds = 0

InitThread ==
    /\ wpc = "idle"
    /\ witem = None
    /\ pre = <<>>

InitNoCall ==
    /\ inp = Call("none", <<>>, "neutral", LOW, 0, TRUE)
    /\ out = None
    /\ pc = "done"

Init == InitStore /\ InitThread /\ InitNoCall

\* the function calls start with their arguments chosen: a raw text for
\* preprocess, a score for map_score_to_intensity, a label, an intensity and
\* a text for the scenario functions, a label and a text for
\* polarity_with_lexicon, and for analyze_text a raw text with what classify
\* does on it (a label of the taxonomy and a score, or a failure)
InitFn ==
    /\ InitStore
    /\ max_size = 1
    /\ InitThread
    /\ \/ \E t \in PreTexts : inp = Call("preprocess", t, "neutral", LOW, 0, TRUE)
       \/ \E s \in Scores :
              inp = Call("map_score_to_intensity", <<>>, "neutral", LOW, s, TRUE)
       \/ \E t \in ScenarioTexts, l \in Labels, i \in Intensities :
              inp = Call("support_scenario", t, l, i, 0, TRUE)
       \/ \E t \in ScenarioTexts, l \in Labels, i \in Intensities :
              inp = Call("moderator_scenario", t, l, i, 0, TRUE)
       \/ \E t \in ScenarioTexts, l \in Labels :
              inp = Call("polarity_with_lexicon", t, l, LOW, 0, TRUE)
       \/ \E t \in ScenarioTexts, l \in Labels, i \in Intensities :
              inp = Call("build_scenarios_single", t, l, i, 0, TRUE)
       \/ \E t \in ScenarioTexts, l \in Taxonomy, s \in BandScores :
              inp = Call("analyze_text", t, l, LOW, s, TRUE)
       \/ \E t \in ScenarioTexts :
              inp = Call("analyze_text", t, "neutral", LOW, 0, FALSE)
    /\ out = None
    /\ pc = "ready"

-----------------------------------------------------------------------------
(* The operations of the repository, each run to its end *)

Min(a, b) == IF a < b THEN a ELSE b

Add(item) ==
    /\ lists' = [lists EXCEPT !.items = HistoryRepository_add(lists.items, item, max_size)]
    /\ adds' = Min(adds + 1, MaxAdds)
    /\ last' = [op |-> "add", arg |-> item, ret |-> None]
    /\ UNCHANGED <<max_size, returned>>
    /\ UNCHANGED threadVars
    /\ UNCHANGED fnVars

Clear ==
    /\ lists' = [lists EXCEPT !.items = HistoryRepository_clear(lists.items)]
    /\ adds' = 0
    /\ last' = [op |-> "clear", arg |-> None, ret |-> None]
    /\ UNCHANGED <<max_size, returned>>
    /\ UNCHANGED threadVars
    /\ UNCHANGED fnVars

List ==
    /\ LET r == HistoryRepository_list(lists)
       IN  /\ lists' = r.lists
           /\ returned' = r.ref
           /\ last' = [op |-> "list", arg |-> None, ret |-> r.ref]
    /\ UNCHANGED <<max_size, adds>>
    /\ UNCHANGED threadVars
    /\ UNCHANGED fnVars

Size ==
    /\ last' = [op |-> "size", arg |-> None, ret |-> HistoryRepository_size(lists.items)]
    /\ UNCHANGED <<max_size, lists, returned, adds>>
    /\ UNCHANGED threadVars
    /\ UNCHANGED fnVars

\* the caller of list() changes the sequence it was given: returned.pop(0)
CallerMutate ==
    /\ returned # "none"
    /\ lists[returned] # <<>>
    /\ lists' = [lists EXCEPT ![returned] = Tail(lists[returned])]
    /\ last' = [op |-> "caller_mutate", arg |-> None, ret |-> None]
    /\ UNCHANGED <<max_size, returned, adds>>
    /\ UNCHANGED threadVars
    /\ UNCHANGED fnVars

NextStore ==
    \/ \E item \in Items : Add(item)
    \/ Clear
    \/ List
    \/ Size
    \/ CallerMutate

SpecStore == Init /\ [][NextStore]_vars

-----------------------------------------------------------------------------
(* add, clear and list() called from threads: a thread switch may fall       *)
(* between the insert and the eviction of add; insert, clear and list(...)   *)
(* are each one call into the list object                                    *)

ThreadAddInsert(item) ==
    /\ wpc = "idle"
    /\ pre' = lists.items
    /\ witem' = item
    /\ lists' = [lists EXCEPT !.items = InsertFront(lists.items, item)]
    /\ wpc' = "inserted"
    /\ last' = [op |-> "add", arg |-> item, ret |-> None]
    /\ adds' = Min(adds + 1, MaxAdds)
    /\ UNCHANGED <<max_size, returned>>
    /\ UNCHANGED fnVars

ThreadAddEvict ==
    /\ wpc = "inserted"
    /\ lists' = [lists EXCEPT !.items = EvictOverflow(lists.items, max_size)]
    /\ wpc' = "idle"
    /\ UNCHANGED <<max_size, returned, last, adds, witem, pre>>
    /\ UNCHANGED fnVars

ThreadClear ==
    /\ wpc = "idle"
    /\ pre' = lists.items
    /\ witem' = None
    /\ lists' = [lists EXCEPT !.items = HistoryRepository_clear(lists.items)]
    /\ last' = [op |-> "clear", arg |-> None, ret |-> None]
    /\ adds' = 0
    /\ UNCHANGED <<max_size, returned, wpc>>
    /\ UNCHANGED fnVars

ThreadList ==
    /\ LET r == HistoryRepository_list(lists)
       IN  /\ lists' = r.lists
           /\ returned' = r.ref
           /\ last' = [op |-> "list", arg |-> None, ret |-> r.ref]
    /\ UNCHANGED <<max_size, adds>>
    /\ UNCHANGED threadVars
    /\ UNCHANGED fnVars

NextThreads ==
    \/ \E item \in Items : ThreadAddInsert(item)
    \/ ThreadAddEvict
    \/ ThreadClear
    \/ ThreadList

SpecThreads == Init /\ [][NextThreads]_vars

-----------------------------------------------------------------------------
(* The function calls *)

Return(result) ==
    /\ pc = "ready"
    /\ out' = result
    /\ pc' = "done"
    /\ UNCHANGED inp
    /\ UNCHANGED storeVars
    /\ UNCHANGED threadVars

CallPreprocess ==
    /\ inp.fn = "preprocess"
    /\ Return(preprocess(inp.text))

CallMapScoreToIntensity ==
    /\ inp.fn = "map_score_to_intensity"
    /\ Return(map_score_to_intensity(inp.score))

CallSupportScenario ==
    /\ inp.fn = "support_scenario"
    /\ Return(support_scenario(inp.label, inp.intensity, inp.text))

CallModeratorScenario ==
    /\ inp.fn = "moderator_scenario"
    /\ Return(moderator_scenario(inp.label, inp.intensity, inp.text))

CallPolarityWithLexicon ==
    /\ inp.fn = "polarity_with_lexicon"
    /\ Return(polarity_with_lexicon(inp.label, inp.text))

CallBuildScenariosSingle ==
    /\ inp.fn = "build_scenarios_single"
    /\ Return(build_scenarios_single(inp.label, inp.intensity, inp.text))

CallAnalyzeText ==
    /\ inp.fn = "analyze_text"
    /\ Return(analyze_text(inp.text,
                           [ok |-> inp.ok, label |-> inp.label, score |-> inp.score]))

NextFn ==
    \/ CallPreprocess
    \/ CallMapScoreToIntensity
    \/ CallSupportScenario
    \/ CallModeratorScenario
    \/ CallPolarityWithLexicon
    \/ CallBuildScenariosSingle
    \/ CallAnalyzeText

SpecFn == InitFn /\ [][NextFn]_vars

-----------------------------------------------------------------------------
(* main.py: the request handlers *)

\* request.cookies.get("emo_user"): None when the request carries no such
\* cookie, else the cookie's value, which may be the empty string
Users == {None, "", "admin"}

\* if not user
NotUser(user) == user \in {None, ""}

\* the credentials a login request may carry
Credentials == {"admin", "guest"}

\* AuthService.login
login(username, password) ==
    IF username = "admin" /\ password = "admin" THEN username ELSE None

\* cleaned_text[:80] + ("..." if len(cleaned_text) > 80 else "")
TextShort(cleaned_text) ==
    IF Len(cleaned_text) > 80
    THEN SubSeq(cleaned_text, 1, 80) \o <<46, 46, 46>>
    ELSE cleaned_text

\* the HistoryItem the analyze handler builds; its timestamp, datetime.now(),
\* enters no decision and is left out
HistoryItem(analyze_response, shares, intensity) ==
    [ text_short |-> TextShort(analyze_response.cleaned_text),
      emotion_label |-> analyze_response.emotion.label,
      intensity |-> intensity,
      positive |-> shares.positive,
      negative |-> shares.negative ]

\* the responses of the handlers
REDIRECT_LOGIN == "redirect: /login"
REDIRECT_ANALYZE_FORM == "redirect: /analyze-form, cookie set"
REDIRECT_LOGOUT == "redirect: /login, cookie deleted"
PAGE_LOGIN == "login.html"
PAGE_LOGIN_ERROR == "login.html: wrong login or password"
PAGE_INDEX == "index.html"
PAGE_RESULT == "result.html"
PAGE_HISTORY == "history.html"
PAGE_ERROR == "error.html, status 500"

\* what a handler leaves behind: the list objects, the list handed to the
\* template, whether an entry was added, and the response
Handled(ls, ret, added, response) ==
    [lists |-> ls, returned |-> ret, added |-> added, response |-> response]

\* the mutant of analyze: the check of the user is left out
analyze_NoAuthCheck(ls, ret, max, user, text, cls, render_ok) ==
    LET r == analyze_text(text, cls)
    IN  IF r.raised THEN Handled(ls, ret, FALSE, PAGE_ERROR)
        ELSE LET item == HistoryItem(r.analyze_response, r.shares, r.intensity)
                 added == [ls EXCEPT !.items = HistoryRepository_add(ls.items, item, max)]
                 history == HistoryRepository_list(added)
             IN  Handled(history.lists, history.ref, TRUE,
                         IF render_ok THEN PAGE_RESULT ELSE PAGE_ERROR)

\* the handler of POST /analyze.  render_ok is whether rendering result.html
\* gives the page: the templates are not part of the sources, and an
\* exception of the rendering is caught by the handler's except clause as
\* one of the analysis is.
analyze(ls, ret, max, user, text, cls, render_ok) ==
    IF NotUser(user) THEN Handled(ls, ret, FALSE, REDIRECT_LOGIN)
    ELSE LET r == analyze_text(text, cls)
         IN  IF r.raised THEN Handled(ls, ret, FALSE, PAGE_ERROR)
             ELSE LET item == HistoryItem(r.analyze_response, r.shares, r.intensity)
                      added == [ls EXCEPT !.items =
                                   HistoryRepository_add(ls.items, item, max)]
                      history == HistoryRepository_list(added)
                  IN  Handled(history.lists, history.ref, TRUE,
                              IF render_ok THEN PAGE_RESULT ELSE PAGE_ERROR)

\* the texts of the /analyze requests: one with a positive-tone word, one
\* with a bad word
AppTexts ==
    {
      <<1056, 1040, 1044>>,  \* RAD
      <<1059, 1078, 1072, 1089, 1085, 1099, 1081, 32, 1089, 1077, 1088, 1074, 1080, 1089>>  \* Uzhasnyj servis
    }

\* what classify does on a request: joy with score 1, neutral with score 0,
\* or an exception
AppOutcomes ==
    { [ok |-> TRUE, label |-> "joy", score |-> ScoreSteps],
      [ok |-> TRUE, label |-> "neutral", score |-> 0],
      [ok |-> FALSE, label |-> "neutral", score |-> 0] }

Responded(op, arg, response) ==
    /\ last' = [op |-> op, arg |-> arg, ret |-> response]
    /\ UNCHANGED threadVars
    /\ UNCHANGED fnVars

Root ==
    /\ Responded("root", None, REDIRECT_LOGIN)
    /\ UNCHANGED <<max_size, lists, returned, adds>>

LoginForm ==
    /\ Responded("login_form", None, PAGE_LOGIN)
    /\ UNCHANGED <<max_size, lists, returned, adds>>

Login ==
    \E username \in Credentials, password \in Credentials :
        /\ Responded("login", <<username, password>>,
                     IF login(username, password) # None
                     THEN REDIRECT_ANALYZE_FORM
                     ELSE PAGE_LOGIN_ERROR)
        /\ UNCHANGED <<max_size, lists, returned, adds>>

Logout ==
    /\ Responded("logout", None, REDIRECT_LOGOUT)
    /\ UNCHANGED <<max_size, lists, returned, adds>>

AnalyzeForm ==
    \E user \in Users :
        /\ Responded("analyze_form", user,
                     IF NotUser(user) THEN REDIRECT_LOGIN ELSE PAGE_INDEX)
        /\ UNCHANGED <<max_size, lists, returned, adds>>

Analyze ==
    \E user \in Users, text \in AppTexts, cls \in AppOutcomes, render_ok \in BOOLEAN :
        \E h \in {analyze(lists, returned, max_size, user, text, cls, render_ok)} :
            /\ lists' = h.lists
            /\ returned' = h.returned
            /\ adds' = IF h.added THEN Min(adds + 1, MaxAdds) ELSE adds
            /\ Responded("analyze", [user |-> user, text |-> text, cls |-> cls],
                         h.response)
            /\ UNCHANGED max_size

HistoryView ==
    \E user \in Users :
        IF NotUser(user)
        THEN /\ Responded("history_view", user, REDIRECT_LOGIN)
             /\ UNCHANGED <<max_size, lists, returned, adds>>
        ELSE LET history == HistoryRepository_list(lists)
             IN  /\ lists' = history.lists
                 /\ returned' = history.ref
                 /\ Responded("history_view", user, PAGE_HISTORY)
                 /\ UNCHANGED <<max_size, adds>>

Next ==
    \/ Root
    \/ LoginForm
    \/ Login
    \/ Logout
    \/ AnalyzeForm
    \/ Analyze
    \/ HistoryView

Spec == Init /\ [][Next]_vars

-----------------------------------------------------------------------------
(* Properties of the history repository *)

\* C1: for a repository of capacity max_size, after any sequence of add and
\* clear calls the size never exceeds max_size, and once more than max_size
\* adds were made with no clear in between, size() is exactly max_size.
C1_SizeBound ==
    /\ HistoryRepository_size(lists.items) <= max_size
    /\ last.op = "size" =>
          /\ last.ret <= max_size
          /\ adds > max_size => last.ret = max_size

\* size() is asked after capacity + k adds, k > 0
C1_Witness ==
    /\ last.op = "size"
    /\ adds > max_size
    /\ last.ret = max_size

\* C2: the store is newest-first: after add(e) the first entry is e and the
\* rest is the previous content in its previous order, less only its last
\* (oldest) entry when the store was already at capacity.
C2_NewestFirst ==
    [][last'.op = "add" =>
          lists'.items =
              <<last'.arg>> \o
                  (IF Len(lists.items) = max_size
                   THEN SubSeq(lists.items, 1, max_size - 1)
                   ELSE lists.items)]_vars

\* an add into a full store of two different entries evicted the oldest one
C2_Witness ==
    /\ last.op = "add"
    /\ adds > max_size
    /\ max_size >= 2
    /\ lists.items[1] = last.arg
    /\ lists.items[2] # last.arg

\* C3: when add or clear runs concurrently with list(), every list() result
\* is the content before the mutation or the content after it, never the
\* buffer between the insert and the eviction.
C3_ReaderSeesPreOrPost ==
    last.op = "list" =>
        IF wpc = "inserted"
        THEN lists.copy \in {pre, HistoryRepository_add(pre, witem, max_size)}
        ELSE lists.copy = lists.items

\* C9: list() returns a snapshot copy: the sequence it returned keeps its
\* content and order under any later add or clear, and a change the caller
\* makes to that sequence does not change the store.
C9_SnapshotCopy ==
    [][/\ (last'.op \in {"add", "clear"} /\ returned # "none")
             => lists'[returned] = lists[returned]
       /\ last'.op = "caller_mutate" => lists'.items = lists.items]_vars

\* an add was made after list() returned, and the snapshot still holds the
\* earlier content
C9_Witness ==
    /\ returned # "none"
    /\ last.op = "add"
    /\ lists[returned] # <<>>
    /\ lists[returned] # lists.items

-----------------------------------------------------------------------------
(* Properties of the pipeline functions *)

Returned(fn) == pc = "done" /\ inp.fn = fn

\* C4: analyze_text fails only if the classifier call fails: whenever
\* classify returns normally, analyze_text returns a result and raises nothing.
C4_FailsOnlyIfClassifierFails ==
    (Returned("analyze_text") /\ inp.ok) => ~out.raised

\* C5: polarity_with_lexicon returns two integers in 0..100 that sum to 100
\* when pos_votes + neg_votes > 0, and exactly (0, 0) when there are no votes.
C5_PolaritySum ==
    Returned("polarity_with_lexicon") =>
        LET v == Votes(inp.label, inp.text)
        IN  /\ out.positive \in 0..100
            /\ out.negative \in 0..100
            /\ v.pos + v.neg > 0 => out.positive + out.negative = 100
            /\ v.pos + v.neg = 0 => out = [positive |-> 0, negative |-> 0]

\* both kinds of votes were cast, and neither share is a whole quotient
C5_Witness ==
    /\ Returned("polarity_with_lexicon")
    /\ Votes(inp.label, inp.text).pos > 0
    /\ Votes(inp.label, inp.text).neg > 0
    /\ out.positive \notin {0, 25, 50, 75, 100}
    /\ out.positive + out.negative = 100

\* C6: if the lowercased text contains a bad word, support_scenario returns
\* its escalation message and moderator_scenario its hide-and-escalate
\* message, whatever the label and the intensity.
C6_BadWordOverride ==
    /\ (Returned("support_scenario") /\ HasBadWords(to_lower(inp.text)))
          => out = SUPPORT_CRITICAL
    /\ (Returned("moderator_scenario") /\ HasBadWords(to_lower(inp.text)))
          => out = MODERATOR_INSULTS

\* a text with a bad word in it, under a negative label of high intensity
C6_Witness ==
    /\ Returned("support_scenario")
    /\ HasBadWords(to_lower(inp.text))
    /\ inp.label \in negative_emotions
    /\ inp.intensity = HIGH
    /\ out = SUPPORT_CRITICAL

IntensityRank(i) == IF i = LOW THEN 0 ELSE IF i = MEDIUM THEN 1 ELSE 2

\* C7: map_score_to_intensity returns one of low, medium, high for every
\* score of [0, 1]: high iff score >= 0.5, medium iff 0.3 <= score < 0.5, low
\* iff score < 0.3; and it is monotonic non-decreasing in the score.
C7_IntensityBands ==
    Returned("map_score_to_intensity") =>
        /\ out \in Intensities
        /\ out = HIGH <=> 2 * inp.score >= ScoreSteps
        /\ out = MEDIUM <=> (10 * inp.score >= 3 * ScoreSteps /\ 2 * inp.score < ScoreSteps)
        /\ out = LOW <=> 10 * inp.score < 3 * ScoreSteps
        /\ \A r \in Scores :
              r <= inp.score =>
                  IntensityRank(map_score_to_intensity(r)) <= IntensityRank(out)

\* the score is exactly 0.5
C7_Witness ==
    /\ Returned("map_score_to_intensity")
    /\ 2 * inp.score = ScoreSteps
    /\ out = HIGH

\* what C8 says of the output apart from its letters: idempotence, the empty
\* text, no whitespace at either end, no two whitespace characters in a row
PreprocessNormalises ==
    /\ preprocess(out) = out
    /\ inp.text = <<>> => out = <<>>
    /\ out # <<>> => ~IsSpace(out[1]) /\ ~IsSpace(out[Len(out)])
    /\ \A i \in 1..(Len(out) - 1) : ~(IsSpace(out[i]) /\ IsSpace(out[i + 1]))

\* C8 as stated: preprocess is idempotent, preprocess("") = "", and the
\* output has no leading or trailing whitespace, no run of two or more
\* whitespace characters, and no uppercase letter.
C8_Original ==
    Returned("preprocess") =>
        /\ PreprocessNormalises
        /\ \A i \in 1..Len(out) : ~IsUpperChar(out[i])

\* C8 as amended: the same, with "no uppercase letter" narrowed to "no
\* uppercase letter that has a lowercase counterpart": every character of the
\* output is its own lowercase form.
C8_Preprocess ==
    Returned("preprocess") =>
        /\ PreprocessNormalises
        /\ \A i \in 1..Len(out) : LowerChar(out[i]) = out[i]

\* a text with whitespace to trim and a capital letter to lower
C8_Witness ==
    /\ Returned("preprocess")
    /\ Len(inp.text) >= 3
    /\ IsSpace(inp.text[1])
    /\ \E i \in 1..Len(inp.text) : inp.text[i] = 1044
    /\ Len(out) < Len(inp.text)
    /\ \E i \in 1..Len(out) : out[i] = 1076

\* C10: for a text without a bad word, moderator_scenario returns the
\* hide-and-flag message for the labels anger and disgust at medium or high
\* intensity, the spot-check message for them at low intensity, and the
\* acceptable message for every other label; the message is never empty.
C10_ModeratorByLabel ==
    (Returned("moderator_scenario") /\ ~HasBadWords(to_lower(inp.text))) =>
        /\ out = IF inp.label \in {"anger", "disgust"}
                 THEN (IF inp.intensity \in {MEDIUM, HIGH}
                       THEN MODERATOR_TOXIC
                       ELSE MODERATOR_SPOT_CHECK)
                 ELSE MODERATOR_ACCEPTABLE
        /\ out \notin {"", None}

\* the votes as C11 states them: 3 for a label of the positive set, 2 for
\* each positive-tone keyword that occurs in the lowercased text; 3 for a
\* label of the negative set that is not in the positive one, 1 for each
\* negative-tone keyword that occurs in it
StatedPosVotes(label, text) ==
    (IF label \in positive_labels THEN 3 ELSE 0)
    + 2 * Cardinality({w \in positive_tone_words : Occurrences(w, to_lower(text)) >= 1})

StatedNegVotes(label, text) ==
    (IF label \in negative_labels /\ label \notin positive_labels THEN 3 ELSE 0)
    + Cardinality({w \in negative_tone_words : Occurrences(w, to_lower(text)) >= 1})

\* C11: polarity_with_lexicon gives the label 3 votes and each distinct
\* keyword present 2 votes (positive tone) or 1 vote (negative tone), a keyword
\* counting once however often it occurs; positive_percent is
\* round(pos_votes / (pos_votes + neg_votes) * 100) and negative_percent is
\* 100 - positive_percent.
C11_LexiconVotes ==
    Returned("polarity_with_lexicon") =>
        LET p == StatedPosVotes(inp.label, inp.text)
            n == StatedNegVotes(inp.label, inp.text)
        IN  p + n > 0 =>
                /\ out.positive = RoundPercent(p, p + n)
                /\ out.negative = 100 - out.positive

\* a negative-tone keyword occurs twice in the text and counts once, against
\* the 3 votes of a positive label: 3 to 1 is 75 to 25
C11_Witness ==
    /\ Returned("polarity_with_lexicon")
    /\ inp.label \in positive_labels
    /\ \E w \in negative_tone_words : Occurrences(w, to_lower(inp.text)) >= 2
    /\ StatedPosVotes(inp.label, inp.text) = 3
    /\ StatedNegVotes(inp.label, inp.text) = 1
    /\ out = [positive |-> 75, negative |-> 25]

\* the marketer message C12 states for the shares: predominantly positive
\* iff positive >= 60 and negative <= 20, predominantly negative iff
\* negative >= 60 and positive <= 20, mixed otherwise
DecidedByShares(message, shares) ==
    /\ message \in {MARKETER_POSITIVE, MARKETER_NEGATIVE, MARKETER_MIXED}
    /\ message = MARKETER_POSITIVE <=> (shares.positive >= 60 /\ shares.negative <= 20)
    /\ message = MARKETER_NEGATIVE <=> (shares.negative >= 60 /\ shares.positive <= 20)

\* C12: the marketer scenario of a bundle is decided only by
\* polarity(label, text), by the thresholds 60 and 20, with the mixed message
\* otherwise (the (0, 0) case included); and the shares analyze_text returns
\* are the shares the marketer scenario of its bundle was decided on.
C12_MarketerByPolarity ==
    /\ Returned("build_scenarios_single") =>
          DecidedByShares(out.for_marketer,
                          polarity_with_lexicon(inp.label, inp.text))
    /\ (Returned("analyze_text") /\ ~out.raised) =>
          /\ out.shares = polarity_with_lexicon(inp.label, preprocess(inp.text))
          /\ DecidedByShares(out.analyze_response.scenarios.for_marketer, out.shares)

\* analyze_text returns the shares (80, 20), on the two thresholds, with the
\* predominantly-positive message
C12_Witness ==
    /\ Returned("analyze_text")
    /\ ~out.raised
    /\ out.shares = [positive |-> 80, negative |-> 20]
    /\ out.analyze_response.scenarios.for_marketer = MARKETER_POSITIVE

\* C13: each /analyze request changes the history by at most one entry: a
\* request of a user whose analysis returns puts exactly one entry, the one
\* of this request, at the front (the oldest leaving a full store); a request
\* whose analysis raises gets the error response and leaves the history as it
\* was, and so does a request without a user.
C13_OneEntryPerRequest ==
    [][last'.op = "analyze" =>
          IF NotUser(last'.arg.user) THEN lists'.items = lists.items
          ELSE \A r \in {analyze_text(last'.arg.text, last'.arg.cls)} :
                  IF r.raised
                  THEN lists'.items = lists.items /\ last'.ret = PAGE_ERROR
                  ELSE /\ lists'.items # <<>>
                       /\ lists'.items[1] =
                              HistoryItem(r.analyze_response, r.shares, r.intensity)
                       /\ Tail(lists'.items) =
                              IF Len(lists.items) = max_size
                              THEN SubSeq(lists.items, 1, max_size - 1)
                              ELSE lists.items]_vars

\* a request of a user whose analysis raised although classify returned: it
\* got the error response, and the entries of earlier requests are in place
C13_Witness ==
    /\ last.op = "analyze"
    /\ ~NotUser(last.arg.user)
    /\ last.arg.cls.ok
    /\ analyze_text(last.arg.text, last.arg.cls).raised
    /\ last.ret = PAGE_ERROR
    /\ adds >= 2
    /\ Len(lists.items) = Min(adds, max_size)

====
